---- MODULE Spec2Model ----
(***************************************************************************)
(* Payment confirmation and stock deduction of kame.colStore.              *)
(*                                                                         *)
(* Two implementations of the confirmation are modelled side by side:      *)
(*   "model"   : Order.confirm_payment            (apps/orders/models.py)  *)
(*   "service" : confirm_order_payment  (apps/orders/services/payments.py) *)
(* Both run inside transaction.atomic(): they take a row lock on the order *)
(* (select_for_update), then row locks on the variants, validate, write    *)
(* and commit.  Writes of a transaction become visible at its commit; a    *)
(* raised ValidationError rolls the transaction back and frees its locks.  *)
(***************************************************************************)
EXTENDS Integers, Sequences, FiniteSets, TLC

(* ---- bounds of the model ---- *)
MaxStock == 2
MaxQty == 2
MaxCalls == 2
MaxEdits == 2
MaxNow == 3
MaxItems == 2

Orders == {1, 2}
Variants == {1, 2}
Products == {1, 2}
Procs == {1, 2}

NULL == 0

PENDING_PAYMENT == "pending_payment"
CREATED == "created"
PAID == "paid"
CANCELLED == "cancelled"
REFUNDED == "refunded"
Statuses == {PENDING_PAYMENT, CREATED, PAID, CANCELLED, REFUNDED}

Impls == {"model", "service"}

VARIABLES
    status,               \* Order.status, per order (committed)
    stock_deducted_at,    \* Order.stock_deducted_at, NULL or a time
    payment_confirmed_at, \* Order.payment_confirmed_at, NULL or a time
    items,                \* the OrderItem rows of each order, a sequence of lines
    stock,                \* ProductVariant.stock (committed)
    subtotal,             \* Order.subtotal, the stored value
    shipping_cost,        \* Order.shipping_cost, the stored value
    total,                \* Order.total, the stored value
    city_code,            \* Order.city_code
    updated_at,           \* Order.updated_at (auto_now)
    recalc,               \* per order: the signal handler's pending recalculation
    edits,                \* history: item and order edits made so far
    check_items,          \* validate_items_stock: the items it is given
    check_results,        \* validate_items_stock: the list it returns
    check_done,           \* validate_items_stock has returned
    assert_out,           \* assert_items_stock: [done, raised, message]
    cart_items,           \* validate_cart_stock: the payload it is given
    cart_strict,          \* validate_cart_stock: its strict_stock argument
    cart_out,             \* validate_cart_stock: [done, raised, error, warnings, hints]
    ship_args,            \* calculate_shipping_cost: its arguments [subtotal, city_code]
    ship_out,             \* calculate_shipping_cost: [done, value]
    product_stock,        \* Product.stock, the stored value, per product
    created,              \* the orders that have a row
    checkout,             \* the checkout request: [done, order, error, items, stock read]
    admin,                \* per caller: its run of the admin action confirm_payment_action
    initial_stock,        \* history: ProductVariant.stock at the start
    is_active,            \* ProductVariant.is_active
    product_of,           \* ProductVariant.product, the variant's Product row
    now,                  \* timezone.now(), a logical clock
    order_lock,           \* holder of the row lock of each order, 0 = free
    variant_lock,         \* holder of the row lock of each variant, 0 = free
    product_lock,         \* holder of the row lock of each product, 0 = free
    pc,                   \* position of each caller
    call,                 \* [order, impl] of the caller's current call
    locked_order,         \* [status, stock_deducted_at] read under the lock
    required_by_variant,  \* the caller's dict variant id -> required quantity
    variants_by_id,       \* the caller's fetched variant rows: id -> stock
    on_commit,            \* TRUE when the call registered _send_paid_email
    result,               \* how the caller's call ended
    sent,                 \* payment-confirmed emails delivered, per order
    calls,                \* history: calls started so far
    returned,             \* history: a call on the order has returned without raising
    deductions,           \* history: committed deduction passes, per order
    units,                \* history: units taken from each variant, per order
    wrote,                \* history: the caller's current call changed the database
    prior_ok              \* history: a call on the same order had returned before this one began

dbvars == <<status, stock_deducted_at, payment_confirmed_at, items, stock, is_active, product_of>>
moneyvars == <<subtotal, shipping_cost, total, city_code, updated_at, recalc, edits>>
lockvars == <<order_lock, variant_lock, product_lock>>
txvars == <<pc, call, locked_order, required_by_variant, variants_by_id, on_commit, result>>
histvars == <<calls, returned, deductions, units, wrote, prior_ok>>
checkvars == <<check_items, check_results, check_done, assert_out>>
cartvars == <<cart_items, cart_strict, cart_out>>
shipvars == <<ship_args, ship_out>>
shopvars == <<product_stock, created, checkout, admin, initial_stock>>
vars == <<dbvars, moneyvars, checkvars, cartvars, shipvars, shopvars, now, lockvars, txvars, sent, histvars>>

EmptyFn == [v \in {} |-> 0]

Min(S) == CHOOSE x \in S : \A y \in S : x <= y
Max(S) == CHOOSE x \in S : \A y \in S : x >= y

(* ---- order lines and their aggregation ---- *)

\* An OrderItem row: variant, quantity and the unit price snapshot.
PricedLine(v, q, u) == [product_variant |-> v, quantity |-> q, unit_price |-> u]

\* Product.price, which OrderItem.save copies into a new line without price.
ProductPrice == 1

Line(v, q) == PricedLine(v, q, ProductPrice)

RECURSIVE SumQty(_, _)
SumQty(its, v) ==
    IF its = << >> THEN 0
    ELSE (IF Head(its).product_variant = v THEN Head(its).quantity ELSE 0)
         + SumQty(Tail(its), v)

\* Mutant: a later line of a variant overwrites the earlier one.
RECURSIVE LastQty(_, _)
LastQty(its, v) ==
    IF its = << >> THEN 0
    ELSE IF its[Len(its)].product_variant = v THEN its[Len(its)].quantity
    ELSE LastQty(SubSeq(its, 1, Len(its) - 1), v)

RequiredByVariantLastLine(its) ==
    [v \in {its[i].product_variant : i \in DOMAIN its} |-> LastQty(its, v)]

RequiredByVariant(its) ==
    [v \in {its[i].product_variant : i \in DOMAIN its} |-> SumQty(its, v)]

(* ---- state checks of the two implementations ---- *)

\* Mutant: only CANCELLED is taken as terminal.
IsTerminalCancelledOnly(st) == st = CANCELLED

IsTerminal(st) == st \in {CANCELLED, REFUNDED}

\* Mutant: the idempotency fast path is never taken.
AlreadyProcessedNever(st, ded) == FALSE

AlreadyProcessed(st, ded) == st = PAID /\ ded # NULL

\* The ValidationError messages, which tell the failures apart.
ErrTerminal == "No se puede confirmar pago para un pedido cancelado o reembolsado."
ErrAlreadyPaid == "El pedido ya esta marcado como pagado; no se puede reconfirmar."
ErrStateService == "Estado invalido para confirmar pago."
ErrStateModel == "Solo se puede confirmar pago para un pedido en estado PENDING_PAYMENT/CREATED."
ErrNoItems == "La orden no tiene items asociados."
ErrVariantsService == "Hay variantes invalidas en el pedido."
ErrVariantsModel == "Hay variantes invalidas o inactivas en el pedido."
ErrStockModel == "Stock insuficiente para la variante."
ErrStockService == "assert_items_stock: variantes no vendibles."

\* Mutant: the service does not single out a PAID order without marker.
InconsistentPaidNever(st, ded) == FALSE

\* The service's "estado inconsistente": PAID with no stock_deducted_at.
InconsistentPaid(st, ded) == st = PAID /\ ded = NULL

ModelStatusAllowed(st) == st \in {PENDING_PAYMENT, CREATED, PAID}

ServiceStatusAllowed(st) == st \in {CREATED, PENDING_PAYMENT}

\* The error the checks after the fast path raise, "" when there is none.
StateError(impl, st, ded, its) ==
    IF impl = "model"
    THEN (IF ~ModelStatusAllowed(st) THEN ErrStateModel ELSE "")
    ELSE IF InconsistentPaid(st, ded) THEN ErrAlreadyPaid
    ELSE IF ~ServiceStatusAllowed(st) THEN ErrStateService
    ELSE IF its = << >> THEN ErrNoItems
    ELSE ""

(* ---- row locks ---- *)

\* Mutant: the order is read without select_for_update.
OrderRowNotLocked(holder) == TRUE

OrderRowFree(holder) == holder = 0

VariantRowFree(holder) == holder = 0

\* The variant query joins the product (select_related) under
\* select_for_update, so the product row of each selected variant is locked
\* too; a row lock its own transaction holds does not block it.
ProductRowFree(holder, p) == holder \in {0, p}

\* The rows the variant query selects FOR UPDATE: the model filters on
\* is_active=True, the service does not.
VariantsToLock(impl, req, active) ==
    IF impl = "model" THEN {v \in DOMAIN req : active[v]} ELSE DOMAIN req

Missing(req, fetched) == DOMAIN req \ DOMAIN fetched

(* ---- stock validation ---- *)

\* Mutant: the rule without the is_active test.
StockCheckReasonNoActive(qty, found, active, available) ==
    IF qty < 1 THEN "Cantidad invalida."
    ELSE IF ~found THEN "Variante no encontrada."
    ELSE IF available < qty THEN "Stock insuficiente."
    ELSE "ok"

\* validate_items_stock: the rule applied to one (variant, quantity) item.
StockCheckReason(qty, found, active, available) ==
    IF qty < 1 THEN "Cantidad invalida."
    ELSE IF ~found THEN "Variante no encontrada."
    ELSE IF ~active THEN "Variante inactiva."
    ELSE IF available < qty THEN "Stock insuficiente."
    ELSE "ok"

\* Mutant: the stock is compared before is_active is looked at.
StockCheckResultStockFirst(variant, qty) ==
    LET found == variant # NULL
        active == found /\ is_active[variant]
        available == IF found THEN stock[variant] ELSE 0
        reason == IF qty < 1 THEN "Cantidad invalida."
                  ELSE IF ~found THEN "Variante no encontrada."
                  ELSE IF available < qty THEN "Stock insuficiente."
                  ELSE IF ~active THEN "Variante inactiva."
                  ELSE "ok"
    IN [variant_id |-> variant, ok |-> reason = "ok", requested |-> qty,
        available |-> available, is_active |-> active, reason |-> reason]

\* validate_items_stock: the StockCheckResult of one item, given the variant
\* it carries (NULL when it carries none) and its quantity.
StockCheckResult(variant, qty) ==
    LET found == variant # NULL
        active == found /\ is_active[variant]
        available == IF found THEN stock[variant] ELSE 0
        reason == StockCheckReason(qty, found, active, available)
    IN [variant_id |-> variant, ok |-> reason = "ok", requested |-> qty,
        available |-> available, is_active |-> active, reason |-> reason]

\* validate_items_stock: one result per item, in the order of the items.
validate_items_stock(its) ==
    [i \in DOMAIN its |-> StockCheckResult(its[i].product_variant, its[i].quantity)]

\* assert_items_stock: the text of one entry of its message,
\* "Variante #{vid}: {reason} (solicitado: {requested}, disponible: {available})",
\* kept as the four values it prints; a result without a variant prints "?".
ErrorEntry(r) ==
    [vid |-> IF r.variant_id = NULL THEN "?" ELSE ToString(r.variant_id),
     reason |-> r.reason, requested |-> r.requested, available |-> r.available]

\* The entries of the results that are not ok, in the order of the results.
RECURSIVE ErrorEntries(_)
ErrorEntries(results) ==
    IF results = << >> THEN << >>
    ELSE IF Head(results).ok THEN ErrorEntries(Tail(results))
    ELSE <<ErrorEntry(Head(results))>> \o ErrorEntries(Tail(results))

\* Mutant: the message names the first failing item only.
assert_items_stockFirstOnly(its) ==
    LET errors == ErrorEntries(validate_items_stock(its))
    IN IF errors = << >> THEN << >> ELSE <<Head(errors)>>

\* assert_items_stock: the errors it joins into the message of the one
\* ValidationError it raises; no error, no exception.
assert_items_stock(its) ==
    ErrorEntries(validate_items_stock(its))

(* ---- validate_cart_stock ---- *)

ErrCartMissing == "Hay variantes inexistentes en el carrito."
ErrCartStock == "Cantidad solicitada supera el stock disponible."

\* The payload lines the loop keeps: a positive variant id and a positive
\* quantity; the others are skipped.
Normalized(payload) ==
    SelectSeq(payload, LAMBDA it : it.product_variant_id > 0 /\ it.quantity > 0)

\* The ids of the kept lines that filter(id__in=...) finds no row for.
MissingIds(normalized) ==
    {normalized[i].product_variant_id : i \in DOMAIN normalized} \ Variants

\* The warnings dict after the loop: one entry per variant id with a line
\* asking for more than variant.stock; a later line of the same id
\* overwrites the entry of an earlier one.
CartWarnings(normalized) ==
    LET short == {i \in DOMAIN normalized :
                    normalized[i].quantity > stock[normalized[i].product_variant_id]}
    IN [v \in {normalized[i].product_variant_id : i \in short} |->
          LET last == Max({i \in short : normalized[i].product_variant_id = v})
          IN [status |-> "insufficient", available |-> stock[v],
              requested |-> normalized[last].quantity]]

\* Mutant: the hint is given whenever the line takes all the stock.
CartHintsAllStock(normalized) ==
    LET last_unit == {i \in DOMAIN normalized :
                        normalized[i].quantity = stock[normalized[i].product_variant_id]}
    IN [v \in {normalized[i].product_variant_id : i \in last_unit} |-> "last_unit"]

\* The hints dict after the loop: the elif branch, for a line that does not
\* ask for more than the stock, with stock 1 and quantity 1.
CartHints(normalized) ==
    LET last_unit == {i \in DOMAIN normalized :
                        /\ ~(normalized[i].quantity > stock[normalized[i].product_variant_id])
                        /\ stock[normalized[i].product_variant_id] = 1
                        /\ normalized[i].quantity = 1}
    IN [v \in {normalized[i].product_variant_id : i \in last_unit} |-> "last_unit"]

CartReturn(warnings, hints) ==
    [done |-> TRUE, raised |-> FALSE, error |-> "", warnings |-> warnings, hints |-> hints]

CartRaise(msg) ==
    [done |-> TRUE, raised |-> TRUE, error |-> msg, warnings |-> EmptyFn, hints |-> EmptyFn]

\* validate_cart_stock(items, strict_stock=strict): what the call ends with.
validate_cart_stock(payload, strict) ==
    LET normalized == Normalized(payload)
    IN IF payload = << >> \/ normalized = << >> THEN CartReturn(EmptyFn, EmptyFn)
       ELSE IF MissingIds(normalized) # {} THEN CartRaise(ErrCartMissing)
       ELSE IF strict /\ CartWarnings(normalized) # EmptyFn THEN CartRaise(ErrCartStock)
       ELSE CartReturn(CartWarnings(normalized), CartHints(normalized))

\* The result slot of validate_cart_stock before it is called.
CartNotCalled ==
    [done |-> FALSE, raised |-> FALSE, error |-> "", warnings |-> EmptyFn, hints |-> EmptyFn]

\* The result slot of a validator that has not been called.
NotCalled == [done |-> FALSE, raised |-> FALSE, message |-> << >>]

\* assert_items_stock: the items it reports; it raises when there is one.
AssertItemsStockErrors(req, fetched, active) ==
    {v \in DOMAIN req :
        StockCheckReason(req[v], v \in DOMAIN fetched, active[v], fetched[v]) # "ok"}

\* Mutant: the loop only asks for some stock, not for the required quantity.
ModelInsufficientZero(req, fetched) ==
    {v \in DOMAIN req : fetched[v] < 1}

\* Order.confirm_payment: its own loop over the required quantities.
ModelInsufficient(req, fetched) ==
    {v \in DOMAIN req : fetched[v] < req[v]}

\* The error the validation raises, "" when there is none.
ValidationError(impl, req, fetched, active) ==
    IF impl = "model"
    THEN (IF Missing(req, fetched) # {} THEN ErrVariantsModel
          ELSE IF ModelInsufficient(req, fetched) # {} THEN ErrStockModel
          ELSE "")
    ELSE (IF Missing(req, fetched) # {} THEN ErrVariantsService
          ELSE IF AssertItemsStockErrors(req, fetched, active) # {} THEN ErrStockService
          ELSE "")

\* Mutant: the loop takes one unit per variant.
DeductedOne(req, fetched) ==
    [v \in DOMAIN fetched |-> IF v \in DOMAIN req THEN fetched[v] - 1 ELSE fetched[v]]

\* The deduction loop: variant.stock -= required_qty on every fetched row.
Deducted(req, fetched) ==
    [v \in DOMAIN fetched |-> IF v \in DOMAIN req THEN fetched[v] - req[v] ELSE fetched[v]]

\* Mutant: the update leaves stock_deducted_at out.
ConfirmedFieldsNoMarker(t) ==
    [status |-> PAID, payment_confirmed_at |-> t, stock_deducted_at |-> NULL]

\* The fields the confirmation writes on the order, at time t.
ConfirmedFields(t) ==
    [status |-> PAID, payment_confirmed_at |-> t, stock_deducted_at |-> t]

(* ---- totals ---- *)

\* _recalc_totals_in_memory: the subtotal of a saved order, from its lines.
RECURSIVE ItemsSubtotal(_)
ItemsSubtotal(its) ==
    IF its = << >> THEN 0
    ELSE Head(its).quantity * Head(its).unit_price + ItemsSubtotal(Tail(its))

\* _recalc_totals_in_memory: total from the instance's subtotal and its
\* shipping_cost.
RecalcTotal(sub, ship) == sub + ship

BOGOTA_CODE == "BOG"
OTHER_CODE == "MED"
CityCodes == {BOGOTA_CODE, OTHER_CODE}
FREE_SHIPPING_THRESHOLD == 3
SHIPPING_BOGOTA == 1
SHIPPING_NATIONAL == 2

\* Mutant: shipping is free only above the threshold, not at it.
calculate_shipping_costAboveOnly(sub, city) ==
    IF sub > FREE_SHIPPING_THRESHOLD THEN 0
    ELSE IF city = BOGOTA_CODE THEN SHIPPING_BOGOTA
    ELSE SHIPPING_NATIONAL

calculate_shipping_cost(sub, city) ==
    IF sub >= FREE_SHIPPING_THRESHOLD THEN 0
    ELSE IF city = BOGOTA_CODE THEN SHIPPING_BOGOTA
    ELSE SHIPPING_NATIONAL

\* signals.py: the window, in seconds, in which a saved order is taken to
\* have its totals already recalculated.
RecentSeconds == 2

\* No recalculation pending.
NoRecalc == [pending |-> FALSE, shipping_cost |-> 0]

(* ---- the payment-confirmed notification ---- *)

ErrEmail == "Fallo enviando email de pago confirmado"

\* Mutant: the callback is registered on the idempotent return as well.
SchedulesEmailOnEveryReturn(impl, path) == impl = "service"

\* Whether a return of the call registers _send_paid_email with
\* transaction.on_commit: only confirm_order_payment does, and only at the
\* end of a fresh confirmation; Order.confirm_payment sends no mail.
SchedulesEmail(impl, path) == impl = "service" /\ path = "confirmed"

\* Mutant: a failed send reaches the caller.
EmailResultReraised(delivered) == IF delivered THEN "ok" ELSE ErrEmail

\* How the call ends once _send_paid_email has run: its try/except logs
\* and swallows a failure of the send.
EmailResult(delivered) == "ok"


(* ---- initial states ---- *)

\* Lines of one order: at most one line per variant (uniq_order_variant),
\* listed by variant id; quantity is a PositiveIntegerField (0 allowed).
SingleLines == {<<Line(v, q)>> : v \in Variants, q \in 0..MaxQty}
PairLines == {<<Line(1, q1), Line(2, q2)>> : q1 \in 1..MaxQty, q2 \in 1..MaxQty}
ItemLists == {<< >>} \cup SingleLines \cup PairLines

InitCommon ==
    /\ stock \in [Variants -> 0..MaxStock]
    /\ is_active \in {[v \in Variants |-> v = 1 \/ b] : b \in BOOLEAN}
    /\ status \in {[o \in Orders |-> IF o = 1 THEN s ELSE PENDING_PAYMENT] : s \in Statuses}
    /\ stock_deducted_at = [o \in Orders |-> NULL]
    /\ payment_confirmed_at = [o \in Orders |-> NULL]
    /\ now = 1
    /\ updated_at = [o \in Orders |-> now - RecentSeconds]
    /\ recalc = [o \in Orders |-> NoRecalc]
    /\ edits = 0
    /\ check_done = FALSE
    /\ check_results = << >>
    /\ assert_out = NotCalled
    /\ cart_out = CartNotCalled
    /\ ship_out = [done |-> FALSE, value |-> 0]
    /\ order_lock = [o \in Orders |-> 0]
    /\ variant_lock = [v \in Variants |-> 0]
    /\ product_lock = [r \in Products |-> 0]
    /\ pc = [p \in Procs |-> "idle"]
    /\ call = [p \in Procs |-> [order |-> 1, impl |-> "model"]]
    /\ locked_order = [p \in Procs |-> [status |-> "", stock_deducted_at |-> NULL]]
    /\ required_by_variant = [p \in Procs |-> EmptyFn]
    /\ variants_by_id = [p \in Procs |-> EmptyFn]
    /\ on_commit = [p \in Procs |-> FALSE]
    /\ result = [p \in Procs |-> "none"]
    /\ sent = [o \in Orders |-> 0]
    /\ calls = 0
    /\ returned = [o \in Orders |-> FALSE]
    /\ deductions = [o \in Orders |-> 0]
    /\ units = [o \in Orders |-> [v \in Variants |-> 0]]
    /\ wrote = [p \in Procs |-> FALSE]
    /\ prior_ok = [p \in Procs |-> FALSE]

\* No cart payload and no shipping quote is being worked on.
NoCart ==
    /\ cart_items = << >> /\ cart_strict = FALSE
    /\ ship_args = [subtotal |-> 0, city_code |-> BOGOTA_CODE]

\* Product.total_stock: the sum of the stock of the product's active variants.
RECURSIVE SumStock(_)
SumStock(S) ==
    IF S = {} THEN 0
    ELSE LET v == CHOOSE x \in S : TRUE IN stock[v] + SumStock(S \ {v})

total_stock(r) == SumStock({v \in Variants : product_of[v] = r /\ is_active[v]})

\* The orders all have their row, Product.stock is as Product.save leaves
\* it, no checkout has been made and no admin action is running.
NoRun == [stage |-> "idle", selected |-> << >>, queue |-> << >>, prev |-> EmptyFn,
          first |-> {}, failed |-> {}, deducted |-> {}]

NoCheckout == [done |-> FALSE, order |-> NULL, error |-> "", items |-> << >>, stock |-> << >>]

Idle ==
    /\ product_stock = [r \in Products |-> total_stock(r)]
    /\ initial_stock = stock
    /\ checkout = NoCheckout
    /\ admin = [p \in Procs |-> NoRun]

Settled == Idle /\ created = Orders

\* Each variant is the only variant of its product.
OwnProduct == [v \in Variants |-> v]

\* The two variants are variants of one product (two sizes of a shirt).
OneProduct == [v \in Variants |-> 1]

\* The totals as create_order_from_cart leaves them: subtotal from the
\* lines, shipping from subtotal and city, total their sum.
CheckoutTotals ==
    /\ subtotal = [o \in Orders |-> ItemsSubtotal(items[o])]
    /\ shipping_cost = [o \in Orders |-> calculate_shipping_cost(subtotal[o], city_code[o])]
    /\ total = [o \in Orders |-> subtotal[o] + shipping_cost[o]]

Init ==
    /\ InitCommon
    /\ check_items = << >>
    /\ NoCart
    /\ product_of = OwnProduct
    /\ Settled
    /\ city_code = [o \in Orders |-> BOGOTA_CODE]
    /\ \E l1 \in ItemLists :
          items = [o \in Orders |-> IF o = 1 THEN l1 ELSE <<Line(1, 1)>>]
    /\ CheckoutTotals

\* Orders whose lines repeat a variant, as the aggregation of the
\* confirmation provides for.
RepeatedLines ==
    {<<Line(v, q1), Line(v, q2)>> : v \in Variants, q1 \in 1..MaxQty, q2 \in 1..MaxQty}
    \cup {<<Line(1, q), Line(2, 1), Line(1, 1)>> : q \in 1..MaxQty}

InitLines ==
    /\ InitCommon
    /\ check_items = << >>
    /\ NoCart
    /\ product_of = OwnProduct
    /\ Settled
    /\ city_code = [o \in Orders |-> BOGOTA_CODE]
    /\ \E l1 \in RepeatedLines :
          items = [o \in Orders |-> IF o = 1 THEN l1 ELSE <<Line(1, 1)>>]
    /\ CheckoutTotals

\* Two orders that share their second variant: the first has a line on each
\* variant, the second a line on the second variant only.
InitShared ==
    /\ InitCommon
    /\ check_items = << >>
    /\ NoCart
    /\ product_of \in {OwnProduct, OneProduct}
    /\ Settled
    /\ city_code = [o \in Orders |-> BOGOTA_CODE]
    /\ \E l1 \in PairLines :
          items = [o \in Orders |-> IF o = 1 THEN l1 ELSE <<Line(2, 1)>>]
    /\ CheckoutTotals

(* ---- the steps of a confirmation call ---- *)

NoOrder == [status |-> "", stock_deducted_at |-> NULL]

\* A caller invokes order.confirm_payment() or confirm_order_payment(order).
\* Callers are interchangeable: a new call takes the first free caller.
Call(p, o, impl) ==
    /\ pc[p] = "idle"
    /\ \A q \in Procs : q < p => pc[q] # "idle"
    /\ calls < MaxCalls
    /\ pc' = [pc EXCEPT ![p] = "lock_order"]
    /\ call' = [call EXCEPT ![p] = [order |-> o, impl |-> impl]]
    /\ locked_order' = [locked_order EXCEPT ![p] = NoOrder]
    /\ result' = [result EXCEPT ![p] = "none"]
    /\ calls' = calls + 1
    /\ on_commit' = [on_commit EXCEPT ![p] = FALSE]
    /\ wrote' = [wrote EXCEPT ![p] = FALSE]
    /\ prior_ok' = [prior_ok EXCEPT ![p] = returned[o]]
    /\ UNCHANGED <<dbvars, moneyvars, checkvars, cartvars, shipvars, shopvars, now, lockvars, required_by_variant, variants_by_id,
                   sent, returned, deductions, units>>

\* Whether a call's result is a raised error.
Raised(r) == r \notin {"none", "ok", "noop"}

\* The end of the transaction, by commit or by rollback, frees its row locks.
Released(locks, p) == [x \in DOMAIN locks |-> IF locks[x] = p THEN 0 ELSE locks[x]]

\* The call ends by a ValidationError: the transaction is rolled back.
Raise(p, msg) ==
    /\ pc' = [pc EXCEPT ![p] = "idle"]
    /\ result' = [result EXCEPT ![p] = msg]
    /\ required_by_variant' = [required_by_variant EXCEPT ![p] = EmptyFn]
    /\ variants_by_id' = [variants_by_id EXCEPT ![p] = EmptyFn]
    /\ order_lock' = Released(order_lock, p)
    /\ variant_lock' = Released(variant_lock, p)
    /\ product_lock' = Released(product_lock, p)
    /\ UNCHANGED <<dbvars, moneyvars, checkvars, cartvars, shipvars, shopvars, now, call, on_commit, sent, histvars>>

\* select_for_update().get(pk) on the order, then the checks on its state
\* and the aggregation of its lines.
LockOrder(p) ==
    LET o == call[p].order
        impl == call[p].impl
        st == status[o]
        ded == stock_deducted_at[o]
        req == RequiredByVariant(items[o])
    IN
    /\ pc[p] = "lock_order"
    /\ OrderRowFree(order_lock[o])
    /\ locked_order' = [locked_order EXCEPT ![p] = [status |-> st, stock_deducted_at |-> ded]]
    /\ IF IsTerminal(st)
       THEN Raise(p, ErrTerminal)
       ELSE IF AlreadyProcessed(st, ded)
       THEN /\ IF SchedulesEmail(impl, "already_paid")
               THEN /\ on_commit' = [on_commit EXCEPT ![p] = TRUE]
                    /\ pc' = [pc EXCEPT ![p] = "email"]
                    /\ UNCHANGED <<result, returned>>
               ELSE /\ pc' = [pc EXCEPT ![p] = "idle"]
                    /\ result' = [result EXCEPT ![p] = "noop"]
                    /\ returned' = [returned EXCEPT ![o] = TRUE]
                    /\ UNCHANGED on_commit
            /\ UNCHANGED <<dbvars, moneyvars, checkvars, cartvars, shipvars, shopvars, now, lockvars, call, required_by_variant, variants_by_id,
                           sent, calls, deductions, units, wrote, prior_ok>>
       ELSE IF StateError(impl, st, ded, items[o]) # ""
       THEN Raise(p, StateError(impl, st, ded, items[o]))
       ELSE /\ order_lock' = [order_lock EXCEPT ![o] = p]
            /\ required_by_variant' = [required_by_variant EXCEPT ![p] = req]
            /\ pc' = [pc EXCEPT ![p] =
                    IF VariantsToLock(impl, req, is_active) = {} THEN "validate" ELSE "lock_variants"]
            /\ UNCHANGED <<dbvars, moneyvars, checkvars, cartvars, shipvars, shopvars, now, variant_lock, product_lock, call, variants_by_id,
                           on_commit, result, sent, histvars>>

\* The variant query takes its row locks one result row at a time, in the
\* order of the rows (Meta.ordering, here the id): the variant row, which it
\* reads once it holds the lock, and then the product row joined to it.
LockVariant(p) ==
    LET impl == call[p].impl
        need == VariantsToLock(impl, required_by_variant[p], is_active)
                   \ DOMAIN variants_by_id[p]
        v == Min(need)
    IN
    /\ pc[p] = "lock_variants"
    /\ need # {}
    /\ VariantRowFree(variant_lock[v])
    /\ variant_lock' = [variant_lock EXCEPT ![v] = p]
    /\ variants_by_id' = [variants_by_id EXCEPT ![p] =
            [w \in DOMAIN @ \cup {v} |-> IF w = v THEN stock[v] ELSE @[w]]]
    /\ pc' = [pc EXCEPT ![p] = "lock_product"]
    /\ UNCHANGED <<dbvars, moneyvars, checkvars, cartvars, shipvars, shopvars, now, order_lock, product_lock, call, locked_order,
                   required_by_variant, on_commit, result, sent, histvars>>

LockProduct(p) ==
    LET impl == call[p].impl
        need == VariantsToLock(impl, required_by_variant[p], is_active)
                   \ DOMAIN variants_by_id[p]
        r == product_of[Max(DOMAIN variants_by_id[p])]
    IN
    /\ pc[p] = "lock_product"
    /\ ProductRowFree(product_lock[r], p)
    /\ product_lock' = [product_lock EXCEPT ![r] = p]
    /\ pc' = [pc EXCEPT ![p] = IF need = {} THEN "validate" ELSE "lock_variants"]
    /\ UNCHANGED <<dbvars, moneyvars, checkvars, cartvars, shipvars, shopvars, now, order_lock, variant_lock, call, locked_order,
                   required_by_variant, variants_by_id, on_commit, result, sent, histvars>>

\* Validation; then the deduction loop, the update of the order and the
\* commit, which makes the writes visible and frees the locks.  The steps
\* between validation and commit touch only rows this transaction has locked.
Process(p) ==
    LET o == call[p].order
        impl == call[p].impl
        req == required_by_variant[p]
        fetched == variants_by_id[p]
        written == Deducted(req, fetched)
        fields == ConfirmedFields(now)
    IN
    /\ pc[p] = "validate"
    /\ IF ValidationError(impl, req, fetched, is_active) # ""
       THEN /\ Raise(p, ValidationError(impl, req, fetched, is_active))
            /\ UNCHANGED locked_order
       ELSE /\ stock' = [v \in Variants |-> IF v \in DOMAIN written THEN written[v] ELSE stock[v]]
            /\ status' = [status EXCEPT ![o] = fields.status]
            /\ payment_confirmed_at' = [payment_confirmed_at EXCEPT ![o] = fields.payment_confirmed_at]
            /\ stock_deducted_at' = [stock_deducted_at EXCEPT ![o] = fields.stock_deducted_at]
            /\ subtotal' = [subtotal EXCEPT ![o] = ItemsSubtotal(items[o])]
            /\ total' = [total EXCEPT ![o] = RecalcTotal(subtotal'[o], shipping_cost[o])]
            /\ now' = now + 1
            /\ order_lock' = Released(order_lock, p)
            /\ variant_lock' = Released(variant_lock, p)
            /\ product_lock' = Released(product_lock, p)
            /\ required_by_variant' = [required_by_variant EXCEPT ![p] = EmptyFn]
            /\ variants_by_id' = [variants_by_id EXCEPT ![p] = EmptyFn]
            /\ deductions' = [deductions EXCEPT ![o] = @ + 1]
            /\ units' = [units EXCEPT ![o] = [v \in Variants |-> @[v] + stock[v] - stock'[v]]]
            /\ wrote' = [wrote EXCEPT ![p] =
                    <<status, stock_deducted_at, payment_confirmed_at, stock>>'
                        # <<status, stock_deducted_at, payment_confirmed_at, stock>>]
            /\ IF SchedulesEmail(impl, "confirmed")
               THEN /\ on_commit' = [on_commit EXCEPT ![p] = TRUE]
                    /\ pc' = [pc EXCEPT ![p] = "email"]
                    /\ UNCHANGED <<result, returned>>
               ELSE /\ pc' = [pc EXCEPT ![p] = "idle"]
                    /\ result' = [result EXCEPT ![p] = "ok"]
                    /\ returned' = [returned EXCEPT ![o] = TRUE]
                    /\ UNCHANGED on_commit
            /\ UNCHANGED <<items, is_active, product_of, shipping_cost, city_code, updated_at,
                           recalc, edits, checkvars, cartvars, shipvars, shopvars, call, locked_order, sent, calls, prior_ok>>

\* _send_paid_email, run by transaction.on_commit after the commit: an
\* exception in it is logged and swallowed.
SendPaidEmail(p, delivered) ==
    LET o == call[p].order IN
    /\ pc[p] = "email"
    /\ sent' = [sent EXCEPT ![o] = IF delivered THEN @ + 1 ELSE @]
    /\ pc' = [pc EXCEPT ![p] = "idle"]
    /\ result' = [result EXCEPT ![p] = EmailResult(delivered)]
    /\ returned' = [returned EXCEPT ![o] = @ \/ ~Raised(EmailResult(delivered))]
    /\ UNCHANGED <<dbvars, moneyvars, checkvars, cartvars, shipvars, shopvars, now, lockvars, call, locked_order, required_by_variant,
                   variants_by_id, on_commit, calls, deductions, units, wrote, prior_ok>>

Next ==
    \E p \in Procs :
        \/ \E o \in Orders, impl \in Impls : Call(p, o, impl)
        \/ LockOrder(p)
        \/ LockVariant(p)
        \/ LockProduct(p)
        \/ Process(p)
        \/ \E delivered \in BOOLEAN : SendPaidEmail(p, delivered)

Spec == Init /\ [][Next]_vars

SpecLines == InitLines /\ [][Next]_vars

(* ---- validate_items_stock on its own ---- *)

\* The items given to validate_items_stock: each carries a variant or none
\* and an integer quantity, also zero, negative or above every stock.
CheckItems ==
    [product_variant : Variants \cup {NULL}, quantity : (-1)..(MaxQty + 1)]

RECURSIVE SeqsUpTo(_, _)
SeqsUpTo(S, n) ==
    IF n = 0 THEN {<< >>}
    ELSE LET shorter == SeqsUpTo(S, n - 1)
         IN shorter \cup {Append(sq, x) : sq \in {t \in shorter : Len(t) = n - 1}, x \in S}

InitStock ==
    /\ InitCommon
    /\ product_of = OwnProduct
    /\ Settled
    /\ city_code = [o \in Orders |-> BOGOTA_CODE]
    /\ status[1] = PENDING_PAYMENT
    /\ items = [o \in Orders |-> <<Line(1, 1)>>]
    /\ CheckoutTotals
    /\ check_items \in SeqsUpTo(CheckItems, MaxItems)
    /\ NoCart

ValidateItemsStock ==
    /\ ~check_done
    /\ check_results' = validate_items_stock(check_items)
    /\ check_done' = TRUE
    /\ UNCHANGED <<dbvars, moneyvars, check_items, assert_out, cartvars, shipvars, shopvars,
                   now, lockvars, txvars, sent, histvars>>

\* assert_items_stock(items): it raises ValidationError(message) when the
\* message has an entry, and returns None otherwise.
AssertItemsStock ==
    /\ ~assert_out.done
    /\ LET message == assert_items_stock(check_items)
       IN assert_out' = [done |-> TRUE, raised |-> message # << >>, message |-> message]
    /\ UNCHANGED <<dbvars, moneyvars, check_items, check_results, check_done, cartvars, shipvars, shopvars,
                   now, lockvars, txvars, sent, histvars>>

NextStock == ValidateItemsStock \/ AssertItemsStock

SpecStock == InitStock /\ [][NextStock]_vars

(* ---- calculate_shipping_cost on its own ---- *)

\* The arguments of calculate_shipping_cost: a subtotal below, at and above
\* the threshold, and a city code that is the hub's, another city's, the
\* hub's in lower case, or empty.
ShippingArgs ==
    [subtotal : (-1)..(FREE_SHIPPING_THRESHOLD + 2),
     city_code : CityCodes \cup {"bog", ""}]

InitShipping ==
    /\ InitCommon
    /\ product_of = OwnProduct
    /\ Settled
    /\ city_code = [o \in Orders |-> BOGOTA_CODE]
    /\ \E l1 \in SingleLines :
          items = [o \in Orders |-> IF o = 1 THEN l1 ELSE <<Line(1, 1)>>]
    /\ CheckoutTotals
    /\ check_items = << >>
    /\ cart_items = << >> /\ cart_strict = FALSE
    /\ ship_args \in ShippingArgs

\* One call calculate_shipping_cost(subtotal, city_code).
CalculateShippingCost ==
    /\ ~ship_out.done
    /\ ship_out' = [done |-> TRUE,
                    value |-> calculate_shipping_cost(ship_args.subtotal, ship_args.city_code)]
    /\ UNCHANGED <<dbvars, moneyvars, checkvars, cartvars, ship_args, shopvars,
                   now, lockvars, txvars, sent, histvars>>

NextShipping == CalculateShippingCost

SpecShipping == InitShipping /\ [][NextShipping]_vars

(* ---- validate_cart_stock next to validate_items_stock ---- *)

\* A variant id that no ProductVariant row has.
NoRecordId == 3

\* The payload of validate_cart_stock: lines {"product_variant_id", "quantity"}
\* with the id of a variant or of no row, and a quantity from 0 upwards.
CartItems ==
    [product_variant_id : Variants \cup {NoRecordId}, quantity : 0..MaxQty]

\* The same lines as the items validate_items_stock takes: the id resolved
\* to its ProductVariant, None when there is no row.
Resolved(payload) ==
    [i \in DOMAIN payload |->
        [product_variant |-> IF payload[i].product_variant_id \in Variants
                             THEN payload[i].product_variant_id ELSE NULL,
         quantity |-> payload[i].quantity]]

InitCart ==
    /\ InitCommon
    /\ product_of = OwnProduct
    /\ Settled
    /\ city_code = [o \in Orders |-> BOGOTA_CODE]
    /\ status[1] = PENDING_PAYMENT
    /\ items = [o \in Orders |-> <<Line(1, 1)>>]
    /\ CheckoutTotals
    /\ cart_items \in SeqsUpTo(CartItems, MaxItems)
    /\ cart_strict \in BOOLEAN
    /\ check_items = Resolved(cart_items)
    /\ ship_args = [subtotal |-> 0, city_code |-> BOGOTA_CODE]

\* One call validate_cart_stock(items, strict_stock=cart_strict).
ValidateCartStock ==
    /\ ~cart_out.done
    /\ cart_out' = validate_cart_stock(cart_items, cart_strict)
    /\ UNCHANGED <<dbvars, moneyvars, checkvars, shipvars, shopvars, cart_items, cart_strict,
                   now, lockvars, txvars, sent, histvars>>

NextCart == ValidateCartStock \/ ValidateItemsStock

SpecCart == InitCart /\ [][NextCart]_vars

(* ---- orders and their lines edited next to the confirmations ---- *)

\* _recalculate_order_total: whether the handler returns without
\* recalculating.
SkipsRecalc(skip_if_recent, age) == skip_if_recent /\ age < RecentSeconds

\* The handler of post_save / post_delete of a line, run on commit: it reads
\* the order and, unless it skips, goes on to recalculate_total().
RecalcStarted(o, skip_if_recent) ==
    IF SkipsRecalc(skip_if_recent, now - updated_at[o])
    THEN NoRecalc
    ELSE [pending |-> TRUE, shipping_cost |-> shipping_cost[o]]

\* OrderItem.save: the save is refused when the line already exists (has a
\* pk) and its order is PAID.
ItemSaveRefused(exists, st) == exists /\ st = PAID

Remove(its, i) == [j \in 1..(Len(its) - 1) |-> IF j < i THEN its[j] ELSE its[j + 1]]

AfterItemEdit(o, skip_if_recent) ==
    /\ recalc' = [recalc EXCEPT ![o] = RecalcStarted(o, skip_if_recent)]
    /\ edits' = edits + 1
    /\ UNCHANGED <<status, stock_deducted_at, payment_confirmed_at, stock, is_active, product_of,
                   subtotal, shipping_cost, total, city_code, updated_at,
                   checkvars, cartvars, shipvars, shopvars, now, lockvars, txvars, sent, histvars>>

\* OrderItem.objects.create / a new inline row: a line on a variant the order
\* has no line on yet (uniq_order_variant); an empty price is filled from
\* the product.  The insert checks its foreign key to the order, which waits
\* for a row lock held on the order.
ItemCreate(o, v, q, u) ==
    /\ edits < MaxEdits
    /\ ~recalc[o].pending
    /\ OrderRowFree(order_lock[o])
    /\ \A i \in DOMAIN items[o] : items[o][i].product_variant # v
    /\ ~ItemSaveRefused(FALSE, status[o])
    /\ items' = [items EXCEPT ![o] =
            Append(@, PricedLine(v, q, IF u = 0 THEN ProductPrice ELSE u))]
    /\ AfterItemEdit(o, TRUE)

\* A save of an existing line with another quantity.
ItemUpdate(o, i, q) ==
    /\ edits < MaxEdits
    /\ ~recalc[o].pending
    /\ i \in DOMAIN items[o]
    /\ q # items[o][i].quantity
    /\ ~ItemSaveRefused(TRUE, status[o])
    /\ items' = [items EXCEPT ![o][i].quantity = q]
    /\ AfterItemEdit(o, TRUE)

\* A delete of a line: OrderItem has no delete rule of its own.
ItemDelete(o, i) ==
    /\ edits < MaxEdits
    /\ ~recalc[o].pending
    /\ i \in DOMAIN items[o]
    /\ items' = [items EXCEPT ![o] = Remove(@, i)]
    /\ AfterItemEdit(o, FALSE)

\* The handler's order.recalculate_total(), on the instance it read.
RecalcSave(o) ==
    /\ recalc[o].pending
    /\ OrderRowFree(order_lock[o])
    /\ subtotal' = [subtotal EXCEPT ![o] = ItemsSubtotal(items[o])]
    /\ total' = [total EXCEPT ![o] = RecalcTotal(subtotal'[o], recalc[o].shipping_cost)]
    /\ recalc' = [recalc EXCEPT ![o] = NoRecalc]
    /\ UNCHANGED <<dbvars, shipping_cost, city_code, updated_at, edits,
                   checkvars, cartvars, shipvars, shopvars, now, lockvars, txvars, sent, histvars>>

\* The order saved from the admin change form, shipping_cost being one of its
\* editable fields: Order.save() of all fields.
AdminSaveOrder(o, ship) ==
    /\ edits < MaxEdits
    /\ OrderRowFree(order_lock[o])
    /\ subtotal' = [subtotal EXCEPT ![o] = ItemsSubtotal(items[o])]
    /\ shipping_cost' = [shipping_cost EXCEPT ![o] = ship]
    /\ total' = [total EXCEPT ![o] = RecalcTotal(subtotal'[o], ship)]
    /\ updated_at' = [updated_at EXCEPT ![o] = now]
    /\ edits' = edits + 1
    /\ UNCHANGED <<dbvars, city_code, recalc, checkvars, cartvars, shipvars, shopvars, now, lockvars, txvars, sent, histvars>>

\* Time passes.
Tick ==
    /\ now < MaxNow
    /\ now' = now + 1
    /\ UNCHANGED <<dbvars, moneyvars, checkvars, cartvars, shipvars, shopvars, lockvars, txvars, sent, histvars>>

\* The unit prices a new line is given: none (0) or a price of its own.
Prices == {0, 2}

\* The one confirmation of the first order that is made next to the edits.
FirstCall(p, impl) == calls = 0 /\ Call(p, 1, impl)

\* One confirmation of the first order, by either implementation, next to
\* edits of that order and of its lines.
NextTotals ==
    \/ \E p \in Procs :
          \/ \E impl \in Impls : FirstCall(p, impl)
          \/ LockOrder(p)
          \/ LockVariant(p)
          \/ LockProduct(p)
          \/ Process(p)
          \/ \E delivered \in BOOLEAN : SendPaidEmail(p, delivered)
    \/ \E v \in Variants, q \in 1..MaxQty, u \in Prices : ItemCreate(1, v, q, u)
    \/ \E i \in 1..Cardinality(Variants), q \in 1..MaxQty : ItemUpdate(1, i, q)
    \/ \E i \in 1..Cardinality(Variants) : ItemDelete(1, i)
    \/ RecalcSave(1)
    \/ \E ship \in 0..SHIPPING_NATIONAL : AdminSaveOrder(1, ship)
    \/ Tick

\* A pending order of one line, with stock for it, as checkout creates it.
InitTotals ==
    /\ InitCommon
    /\ check_items = << >>
    /\ NoCart
    /\ stock = [v \in Variants |-> MaxStock]
    /\ is_active = [v \in Variants |-> TRUE]
    /\ status = [o \in Orders |-> PENDING_PAYMENT]
    /\ product_of = OwnProduct
    /\ Settled
    /\ city_code \in {[o \in Orders |-> IF o = 1 THEN c ELSE BOGOTA_CODE] : c \in CityCodes}
    /\ \E q \in 1..MaxQty :
          items = [o \in Orders |-> IF o = 1 THEN <<Line(1, q)>> ELSE <<Line(1, 1)>>]
    /\ CheckoutTotals

SpecTotals == InitTotals /\ [][NextTotals]_vars

SpecShared == InitShared /\ [][Next]_vars

(* ---- checkout: POST /api/orders/checkout/ ---- *)

ErrCheckoutItems == "items invalidos"
ErrIntegrity == "integrity_error"

\* The items of a checkout request: the id of a variant or of no row and a
\* quantity of at least 1 (what the item serializer lets through); a request
\* has one or two of them.
CheckoutItems ==
    [product_variant_id : Variants \cup {NoRecordId}, quantity : 1..MaxQty]

CheckoutPayloads ==
    {<<a>> : a \in CheckoutItems} \cup {<<a, b>> : a \in CheckoutItems, b \in CheckoutItems}

\* CheckoutSerializer.validate_items: consolidated[variant_id] += qty.
RECURSIVE Consolidated(_, _)
Consolidated(payload, v) ==
    IF payload = << >> THEN 0
    ELSE (IF Head(payload).product_variant_id = v THEN Head(payload).quantity ELSE 0)
         + Consolidated(Tail(payload), v)

\* The variant ids that more than one line of the request names.
Repeated(payload) ==
    {v \in Variants :
        Cardinality({i \in DOMAIN payload : payload[i].product_variant_id = v}) > 1}

\* What the request fails with, "" when the order is created: the item
\* serializer (quantity >= 1), validate_cart on the consolidated quantities
\* (unknown id, quantity above variant.stock), and the insert of the rows,
\* one per line of the request as sent, under uniq_order_variant.
CheckoutError(payload) ==
    IF \E i \in DOMAIN payload : payload[i].quantity < 1 THEN ErrCheckoutItems
    ELSE IF \E i \in DOMAIN payload : payload[i].product_variant_id \notin Variants
    THEN ErrCartMissing
    ELSE IF \E v \in Variants : Consolidated(payload, v) > stock[v] THEN ErrCartStock
    ELSE IF Repeated(payload) # {} THEN ErrIntegrity
    ELSE ""

\* The OrderItem rows of the new order: one per line of the request; a line
\* sent without a price (0) gets the product's price in OrderItem.save.
CheckoutLines(payload, price) ==
    [i \in DOMAIN payload |->
        PricedLine(payload[i].product_variant_id, payload[i].quantity,
                   IF price = 0 THEN ProductPrice ELSE price)]

\* The subtotal the view adds up: the price sent (0 when none) times the
\* quantity, line by line.
RECURSIVE CheckoutSubtotal(_, _)
CheckoutSubtotal(payload, price) ==
    IF payload = << >> THEN 0
    ELSE price * Head(payload).quantity + CheckoutSubtotal(Tail(payload), price)

\* One checkout request, with the unit price its lines are sent with (0:
\* none) and the city of the address.  The order and its lines are created
\* in one transaction, which an IntegrityError rolls back; the handlers of
\* the lines' post_save run on commit and find the order saved just now.
Checkout(payload, price, city) ==
    LET o == Min(Orders \ created)
        err == CheckoutError(payload)
        sub == CheckoutSubtotal(payload, price)
        ship == calculate_shipping_cost(sub, city)
    IN
    /\ created # Orders
    /\ ~checkout.done
    /\ IF err # ""
       THEN /\ checkout' = [done |-> TRUE, order |-> NULL, error |-> err, items |-> payload,
                             stock |-> stock]
            /\ UNCHANGED <<dbvars, moneyvars, created>>
       ELSE /\ checkout' = [done |-> TRUE, order |-> o, error |-> "", items |-> payload,
                             stock |-> stock]
            /\ created' = created \cup {o}
            /\ status' = [status EXCEPT ![o] = PENDING_PAYMENT]
            /\ stock_deducted_at' = [stock_deducted_at EXCEPT ![o] = NULL]
            /\ payment_confirmed_at' = [payment_confirmed_at EXCEPT ![o] = NULL]
            /\ items' = [items EXCEPT ![o] = CheckoutLines(payload, price)]
            /\ city_code' = [city_code EXCEPT ![o] = city]
            /\ subtotal' = [subtotal EXCEPT ![o] = sub]
            /\ shipping_cost' = [shipping_cost EXCEPT ![o] = ship]
            /\ total' = [total EXCEPT ![o] = sub + ship]
            /\ updated_at' = [updated_at EXCEPT ![o] = now]
            /\ recalc' = [recalc EXCEPT ![o] =
                    IF SkipsRecalc(TRUE, now - now) THEN NoRecalc
                    ELSE [pending |-> TRUE, shipping_cost |-> ship]]
            /\ UNCHANGED <<stock, is_active, product_of, edits>>
    /\ UNCHANGED <<checkvars, cartvars, shipvars, product_stock, admin, initial_stock,
                   now, lockvars, txvars, sent, histvars>>

\* A confirmation is called on an order that has its row.
CallCreated(p, o, impl) == o \in created /\ Call(p, o, impl)

\* One checkout, to an address in Bogota, next to the confirmations of the
\* orders there are.
NextCheckout ==
    \/ \E p \in Procs :
          \/ \E o \in Orders, impl \in Impls : CallCreated(p, o, impl)
          \/ LockOrder(p)
          \/ LockVariant(p)
          \/ LockProduct(p)
          \/ Process(p)
          \/ \E delivered \in BOOLEAN : SendPaidEmail(p, delivered)
    \/ \E payload \in CheckoutPayloads, price \in Prices :
          Checkout(payload, price, BOGOTA_CODE)

\* The first order is there, pending payment, with one line on the first
\* variant; the second is yet to be created by a checkout.
InitCheckout ==
    /\ InitCommon
    /\ check_items = << >>
    /\ NoCart
    /\ product_of = OwnProduct
    /\ Idle
    /\ created = {1}
    /\ status[1] = PENDING_PAYMENT
    /\ is_active = [v \in Variants |-> TRUE]
    /\ city_code = [o \in Orders |-> BOGOTA_CODE]
    /\ items = [o \in Orders |-> IF o = 1 THEN <<Line(1, 1)>> ELSE << >>]
    /\ CheckoutTotals

SpecCheckout == InitCheckout /\ [][NextCheckout]_vars

(* ---- Product.stock next to the confirmations ---- *)

\* Product.save() of an existing product: stock is set to total_stock and
\* the row is written, which waits for a row lock held on it.
ProductSave(r) ==
    /\ product_lock[r] = 0
    /\ product_stock[r] # total_stock(r)
    /\ product_stock' = [product_stock EXCEPT ![r] = total_stock(r)]
    /\ UNCHANGED <<dbvars, moneyvars, checkvars, cartvars, shipvars,
                   created, checkout, admin, initial_stock,
                   now, lockvars, txvars, sent, histvars>>

NextProduct ==
    \/ Next
    \/ \E r \in Products : ProductSave(r)

SpecProduct == InitShared /\ [][NextProduct]_vars

(* ---- the admin action "Confirmar pago y descontar stock" ---- *)

\* The querysets an admin can select: one order or both, in either order of
\* the changelist.
Selections ==
    {<<o>> : o \in Orders}
    \cup {sel \in {<<o1, o2>> : o1 \in Orders, o2 \in Orders} : sel[1] # sel[2]}

\* "for order in queryset": the queryset is evaluated, every selected order
\* is loaded as it is stored at that moment.
AdminStart(p, sel) ==
    /\ admin[p].stage = "idle"
    /\ pc[p] = "idle"
    /\ \A i \in DOMAIN sel : sel[i] \in created
    /\ admin' = [admin EXCEPT ![p] =
          [stage |-> "loop", selected |-> sel, queue |-> sel,
           prev |-> [o \in {sel[i] : i \in DOMAIN sel} |->
                       [stock_deducted_at |-> stock_deducted_at[o],
                        shipping_cost |-> shipping_cost[o]]],
           first |-> {}, failed |-> {}, deducted |-> {}]]
    /\ UNCHANGED <<dbvars, moneyvars, checkvars, cartvars, shipvars,
                   product_stock, created, checkout, initial_stock,
                   now, lockvars, txvars, sent, histvars>>

\* order.confirm_payment() on the next order of the loop.
AdminCall(p) ==
    LET o == Head(admin[p].queue) IN
    /\ admin[p].stage = "loop"
    /\ pc[p] = "idle" /\ result[p] = "none"
    /\ pc' = [pc EXCEPT ![p] = "lock_order"]
    /\ call' = [call EXCEPT ![p] = [order |-> o, impl |-> "model"]]
    /\ locked_order' = [locked_order EXCEPT ![p] = NoOrder]
    /\ calls' = calls + 1
    /\ on_commit' = [on_commit EXCEPT ![p] = FALSE]
    /\ wrote' = [wrote EXCEPT ![p] = FALSE]
    /\ prior_ok' = [prior_ok EXCEPT ![p] = returned[o]]
    /\ UNCHANGED <<dbvars, moneyvars, checkvars, cartvars, shipvars, shopvars, now, lockvars,
                   result, required_by_variant, variants_by_id,
                   sent, returned, deductions, units>>

\* is_first_confirmation, from the stock_deducted_at the order was loaded
\* with and the status and stock_deducted_at read back by refresh_from_db.
IsFirstConfirmation(prev_deducted_at, deducted_at, st) ==
    prev_deducted_at = NULL /\ deducted_at # NULL /\ st = PAID

\* Mutant: the loop ends at the first order that fails.
AfterFailureStops(run, o) ==
    [run EXCEPT !.failed = @ \cup {o}, !.queue = << >>, !.stage = "done"]

\* The except branches: the error is reported by messages.error and the
\* loop goes on with the next order.
AfterFailure(run, o) ==
    [run EXCEPT !.failed = @ \cup {o}, !.queue = Tail(@),
                !.stage = IF Tail(run.queue) = << >> THEN "done" ELSE "loop"]

\* The rest of the loop body once confirm_payment() has returned or raised:
\* on a first confirmation the payment_reference is saved with
\* save(update_fields=["payment_reference"]), which Order.save extends by
\* subtotal and total as recomputed on the loaded instance, and the success
\* message of the order is emitted.
AdminAfter(p) ==
    LET run == admin[p]
        o == Head(run.queue)
        is_first_confirmation ==
            IsFirstConfirmation(run.prev[o].stock_deducted_at, stock_deducted_at[o], status[o])
    IN
    /\ run.stage = "loop"
    /\ pc[p] = "idle" /\ result[p] # "none"
    /\ (~Raised(result[p]) /\ is_first_confirmation) => OrderRowFree(order_lock[o])
    /\ result' = [result EXCEPT ![p] = "none"]
    /\ IF Raised(result[p])
       THEN /\ admin' = [admin EXCEPT ![p] = AfterFailure(run, o)]
            /\ UNCHANGED <<subtotal, total>>
       ELSE /\ admin' = [admin EXCEPT ![p] =
                  [run EXCEPT !.first = IF is_first_confirmation THEN @ \cup {o} ELSE @,
                              !.deducted = IF wrote[p] THEN @ \cup {o} ELSE @,
                              !.queue = Tail(@),
                              !.stage = IF Tail(run.queue) = << >> THEN "done" ELSE "loop"]]
            /\ IF is_first_confirmation
               THEN /\ subtotal' = [subtotal EXCEPT ![o] = ItemsSubtotal(items[o])]
                    /\ total' = [total EXCEPT ![o] =
                                    RecalcTotal(subtotal'[o], run.prev[o].shipping_cost)]
               ELSE UNCHANGED <<subtotal, total>>
    /\ UNCHANGED <<dbvars, shipping_cost, city_code, updated_at, recalc, edits,
                   checkvars, cartvars, shipvars,
                   product_stock, created, checkout, initial_stock, now, lockvars,
                   pc, call, locked_order, required_by_variant, variants_by_id, on_commit,
                   sent, histvars>>

\* Two orders of one line: the first on either variant, the second on the
\* first variant, in any status of the first and with any stock.
InitAdmin ==
    /\ InitCommon
    /\ check_items = << >>
    /\ NoCart
    /\ product_of = OwnProduct
    /\ Settled
    /\ city_code = [o \in Orders |-> BOGOTA_CODE]
    /\ \E v \in Variants :
          items = [o \in Orders |-> IF o = 1 THEN <<Line(v, MaxQty)>> ELSE <<Line(1, 1)>>]
    /\ CheckoutTotals

\* Runs of the admin action by two admins, each over its selection.
NextAdmin ==
    \E p \in Procs :
        \/ \E sel \in Selections : AdminStart(p, sel)
        \/ AdminCall(p)
        \/ LockOrder(p)
        \/ LockVariant(p)
        \/ LockProduct(p)
        \/ Process(p)
        \/ AdminAfter(p)

SpecAdmin == InitAdmin /\ [][NextAdmin]_vars

(* ---- what the claims speak of ---- *)

RECURSIVE SumIdx(_, _)
SumIdx(its, S) ==
    IF S = {} THEN 0
    ELSE LET i == CHOOSE j \in S : TRUE
         IN its[i].quantity + SumIdx(its, S \ {i})

\* The quantity an order's lines ask of a variant: the sum over its lines.
LinesQty(its, v) == SumIdx(its, {i \in DOMAIN its : its[i].product_variant = v})

Refs(o) == {items[o][i].product_variant : i \in DOMAIN items[o]}
Need(o) == [v \in Variants |-> LinesQty(items[o], v)]

PrePayment(st) == st \in {PENDING_PAYMENT, CREATED}
Finished(p) == pc[p] = "idle" /\ result[p] # "none"

\* The step of caller p that leaves the given position.
Leaves(p, at) == pc[p] = at /\ pc'[p] # at

Short(o) == {v \in Refs(o) : stock[v] < Need(o)[v]}
Inactive(o) == {v \in Refs(o) : ~is_active[v]}

\* C1: Idempotency.  A call made after a call on the same order has returned
\* without raising returns without raising and changes nothing (stock,
\* status, stock_deducted_at, payment_confirmed_at); whatever the number of
\* calls, stock is deducted for the order exactly once.
C1_Idempotent ==
    /\ \A p \in Procs :
          (Finished(p) /\ prior_ok[p]) => (result[p] = "noop" /\ ~wrote[p])
    /\ \A o \in Orders :
          /\ deductions[o] <= 1
          /\ returned[o] => (deductions[o] = 1 /\ units[o] = Need(o))

C1_Witness ==
    \E p \in Procs :
        /\ Finished(p) /\ prior_ok[p] /\ result[p] = "noop"
        /\ units[call[p].order][1] > 0
        /\ calls = 2

\* C2: Two overlapping calls on one order.  Stock is never deducted twice for
\* an order; of two overlapping calls that do not raise, one is the fresh
\* confirmation and the other the no-op, and the order's quantities have been
\* taken exactly once; and when the order passes the stock rules neither of
\* the two raises, so the deduction does happen.
C2_OneDeduction ==
    /\ \A o \in Orders :
          deductions[o] <= 1 /\ \A v \in Variants : units[o][v] <= Need(o)[v]
    /\ \A p, q \in Procs :
          LET o == call[p].order IN
          (/\ p # q /\ Finished(p) /\ Finished(q)
           /\ call[q].order = o
           /\ ~prior_ok[p] /\ ~prior_ok[q]
           /\ PrePayment(locked_order[p].status) \/ PrePayment(locked_order[q].status))
          =>
          /\ (~Raised(result[p]) /\ ~Raised(result[q])) =>
                /\ {result[p], result[q]} = {"ok", "noop"}
                /\ deductions[o] = 1
                /\ units[o] = Need(o)
          /\ (/\ Refs(o) # {}
              /\ \A v \in Refs(o) :
                    is_active[v] /\ Need(o)[v] >= 1 /\ stock[v] + units[o][v] >= Need(o)[v])
             => (~Raised(result[p]) /\ ~Raised(result[q]))

C2_Witness ==
    \E p, q \in Procs :
        /\ p # q /\ Finished(p) /\ Finished(q)
        /\ call[p].order = call[q].order
        /\ ~prior_ok[p] /\ ~prior_ok[q]
        /\ PrePayment(locked_order[p].status)
        /\ result[p] = "ok" /\ result[q] = "noop"
        /\ units[call[p].order][1] > 0

\* C3: Atomicity.  When the validation of a confirmation meets a required
\* variant that is inactive or short of stock, the call raises and no stock,
\* status or timestamp changes, whatever the other variants hold.
C3_Atomic ==
    [][\A p \in Procs :
          (Leaves(p, "validate") /\ Short(call[p].order) \cup Inactive(call[p].order) # {})
          => (Raised(result'[p]) /\ UNCHANGED dbvars)]_vars

C3_Witness ==
    \E p \in Procs :
        LET o == call[p].order IN
        /\ Finished(p) /\ Raised(result[p]) /\ ~wrote[p]
        /\ PrePayment(locked_order[p].status) /\ PrePayment(status[o])
        /\ Refs(o) = {1, 2}
        /\ Cardinality(Short(o) \cup Inactive(o)) = 1
        /\ stock_deducted_at[o] = NULL
        /\ \A x \in Orders : deductions[x] = 0

\* C4: Non-negativity.  No variant's stock is ever below zero, and a
\* confirmation that needs more units of a variant than it has is rejected
\* as a whole: it raises and changes nothing.
C4_NonNegative ==
    [][/\ \A v \in Variants : stock'[v] >= 0
       /\ \A p \in Procs :
             (Leaves(p, "validate") /\ Short(call[p].order) # {})
             => (Raised(result'[p]) /\ stock' = stock /\ status' = status)]_vars

C4_Witness ==
    \E p \in Procs :
        LET o == call[p].order IN
        /\ Finished(p) /\ Raised(result[p])
        /\ PrePayment(locked_order[p].status)
        /\ Inactive(o) = {} /\ Short(o) # {}
        /\ deductions[2] = 1 /\ o = 1
        /\ stock[1] = 0

Confirmable(o) ==
    /\ PrePayment(status[o])
    /\ items[o] # << >>
    /\ \A v \in Refs(o) : is_active[v] /\ stock[v] >= Need(o)[v]

Confirmed(o) ==
    /\ status'[o] = PAID
    /\ payment_confirmed_at'[o] # NULL
    /\ stock_deducted_at'[o] # NULL
    /\ stock' = [v \in Variants |-> stock[v] - Need(o)[v]]

C7_Aggregation ==
    [][\A p \in Procs :
          LET o == call[p].order IN
          /\ (Leaves(p, "lock_order") /\ pc'[p] \in {"lock_variants", "validate"})
             => required_by_variant'[p] = [v \in Refs(o) |-> LinesQty(items[o], v)]
          /\ (Leaves(p, "validate") /\ Inactive(o) = {})
             => IF Short(o) # {}
                THEN Raised(result'[p]) /\ stock' = stock
                ELSE stock' = [v \in Variants |-> stock[v] - Need(o)[v]]]_vars

C7_Witness ==
    \E p \in Procs :
        /\ Finished(p) /\ result[p] = "ok" /\ call[p].order = 1
        /\ items[1] = <<Line(1, 1), Line(1, 1)>>
        /\ units[1][1] = 2 /\ stock[1] = 0
        /\ calls = 1

\* C8: Terminal states.  A confirmation of a CANCELLED or REFUNDED order
\* fails with the terminal-state error and leaves the order and every
\* variant's stock as they were.
C8_Terminal ==
    \A p \in Procs :
        LET o == call[p].order IN
        (Finished(p) /\ locked_order[p].status \in {CANCELLED, REFUNDED})
        => /\ result[p] = ErrTerminal
           /\ ~wrote[p]
           /\ status[o] = locked_order[p].status
           /\ stock_deducted_at[o] = NULL /\ payment_confirmed_at[o] = NULL
           /\ units[o] = [v \in Variants |-> 0]

C8_Witness ==
    \E p \in Procs :
        LET o == call[p].order IN
        /\ Finished(p) /\ locked_order[p].status = REFUNDED
        /\ result[p] = ErrTerminal
        /\ Refs(o) = {1, 2} /\ Short(o) = {} /\ Inactive(o) = {}

\* C9: The service on a PAID order without marker: the call is rejected with
\* the error of the inconsistent state, changes no stock, leaves the marker
\* unset and registers no notification.
C9_ServiceRejectsPaid ==
    \A p \in Procs :
        (/\ Finished(p) /\ call[p].impl = "service"
         /\ locked_order[p].status = PAID /\ locked_order[p].stock_deducted_at = NULL)
        => /\ result[p] = ErrAlreadyPaid
           /\ ~wrote[p]
           /\ ~on_commit[p]
           /\ sent[call[p].order] = 0

C9_Witness ==
    \E p \in Procs :
        LET o == call[p].order IN
        /\ Finished(p) /\ call[p].impl = "service"
        /\ locked_order[p].status = PAID /\ locked_order[p].stock_deducted_at = NULL
        /\ result[p] = ErrAlreadyPaid
        /\ Refs(o) # {} /\ Short(o) = {} /\ Inactive(o) = {}
        /\ stock_deducted_at[o] = NULL

\* C10: Order.confirm_payment on a PAID order without marker is rejected
\* with an error: no stock is deducted and stock_deducted_at stays unset.
C10_ModelRejectsPaid ==
    \A p \in Procs :
        (/\ Finished(p) /\ call[p].impl = "model"
         /\ locked_order[p].status = PAID /\ locked_order[p].stock_deducted_at = NULL)
        => /\ Raised(result[p])
           /\ ~wrote[p]

\* C11: Empty order.  A confirmation, by either implementation, of an order
\* in a pre-payment status that has no lines fails with an error, and the
\* order is not made PAID and does not get stock_deducted_at.
C11_EmptyOrderFails ==
    \A p \in Procs :
        LET o == call[p].order IN
        (Finished(p) /\ PrePayment(locked_order[p].status) /\ items[o] = << >>)
        => /\ Raised(result[p])
           /\ status[o] # PAID
           /\ stock_deducted_at[o] = NULL

\* C12: Notification at most once and only after commit.  Whatever calls are
\* made on an order, in sequence or overlapping, at most one payment-confirmed
\* email is sent for it; the order is then PAID with its marker set by a
\* committed transaction; and an email is only ever sent by a call of
\* confirm_order_payment that made the fresh confirmation and has committed
\* it, never by one that raised or that returned on the idempotent path.
C12_NotifyOnce ==
    [][\A o \in Orders :
          /\ sent'[o] <= 1
          /\ sent'[o] > 0 => (status'[o] = PAID /\ stock_deducted_at'[o] # NULL)
          /\ sent'[o] # sent[o] =>
                \E p \in Procs :
                    /\ pc[p] = "email" /\ pc'[p] = "idle"
                    /\ call[p] = [order |-> o, impl |-> "service"]
                    /\ PrePayment(locked_order[p].status)
                    /\ wrote[p] /\ on_commit[p]
                    /\ order_lock[o] # p /\ \A v \in Variants : variant_lock[v] # p
                    /\ status[o] = PAID /\ stock_deducted_at[o] # NULL]_vars

C12_Witness ==
    \E p, q \in Procs :
        /\ p # q /\ Finished(p) /\ Finished(q)
        /\ call[p] = [order |-> 1, impl |-> "service"] /\ call[q] = call[p]
        /\ ~prior_ok[p] /\ ~prior_ok[q]
        /\ result[p] = "ok" /\ result[q] = "noop"
        /\ sent[1] = 1

\* C13: A first successful confirmation through the admin action, that is by
\* Order.confirm_payment, has sent the payment-confirmed email exactly once
\* when it has returned.
C13_AdminNotifies ==
    \A p \in Procs :
        LET o == call[p].order IN
        (/\ Finished(p) /\ call[p].impl = "model" /\ result[p] = "ok"
         /\ locked_order[p].stock_deducted_at = NULL
         /\ \A q \in Procs : (q # p /\ call[q].order = o) => pc[q] = "idle")
        => sent[o] = 1

\* C14: A failed send is swallowed.  When _send_paid_email fails after a
\* confirmation by confirm_order_payment, the call returns without raising,
\* the order stays PAID with its marker and the stock stays deducted, and no
\* later call sends the email in its place.
C14_EmailFailureSwallowed ==
    [][/\ \A p \in Procs :
            (pc[p] = "email" /\ pc'[p] # "email" /\ sent' = sent)
            => /\ result'[p] = "ok"
               /\ dbvars' = dbvars
               /\ status'[call[p].order] = PAID
               /\ stock_deducted_at'[call[p].order] # NULL
       /\ \A o \in Orders :
            (/\ deductions[o] > 0 /\ sent[o] = 0
             /\ \A p \in Procs : call[p].order = o => pc[p] # "email")
            => sent'[o] = 0]_vars

C14_Witness ==
    \E p, q \in Procs :
        LET o == call[p].order IN
        /\ p # q /\ Finished(p) /\ Finished(q)
        /\ call[p].impl = "service" /\ call[q] = call[p]
        /\ result[p] = "ok" /\ wrote[p] /\ on_commit[p]
        /\ result[q] = "noop"
        /\ sent[o] = 0
        /\ units[o][1] > 0 /\ status[o] = PAID /\ stock_deducted_at[o] # NULL

\* The caller that holds the row lock caller p is waiting for, 0 when p is
\* not waiting.
WaitsFor(p) ==
    LET need == VariantsToLock(call[p].impl, required_by_variant[p], is_active)
                   \ DOMAIN variants_by_id[p]
        h == IF pc[p] = "lock_order" THEN order_lock[call[p].order]
             ELSE IF pc[p] = "lock_variants" THEN variant_lock[Min(need)]
             ELSE IF pc[p] = "lock_product"
                  THEN product_lock[product_of[Max(DOMAIN variants_by_id[p])]]
             ELSE 0
    IN IF h = p THEN 0 ELSE h

\* C15: Deadlock freedom.  Two overlapping confirmations of different orders
\* that share variants never wait for each other: one may wait for a row the
\* other holds, never both at once.
C15_NoDeadlock ==
    \A p, q \in Procs :
        (p # q /\ call[p].order # call[q].order)
        => ~(WaitsFor(p) = q /\ WaitsFor(q) = p)

\* C16: Total invariant.  In every state every order's stored total is its
\* stored subtotal plus its stored shipping_cost.
C16_TotalInvariant ==
    \A o \in Orders : total[o] = subtotal[o] + shipping_cost[o]

\* C17: Subtotal never drifts.  Once the edits of an order's lines have been
\* committed and the handlers they registered have run, the order's stored
\* subtotal is the sum over its lines of quantity times unit price.
C17_SubtotalMatchesLines ==
    \A o \in Orders :
        (edits > 0 /\ ~recalc[o].pending) => subtotal[o] = ItemsSubtotal(items[o])

\* C18: Shipping is recomputed at confirmation.  When a confirmation of an
\* order with lines succeeds, the order's stored shipping_cost is
\* calculate_shipping_cost of its stored subtotal and its city.
C18_ShippingRecomputed ==
    [][\A p \in Procs :
          LET o == call[p].order IN
          (/\ Leaves(p, "validate") /\ items[o] # << >>
           /\ status'[o] = PAID /\ stock_deducted_at'[o] # NULL)
          => shipping_cost'[o] = calculate_shipping_cost(subtotal'[o], city_code'[o])]_vars

\* C19: Lines are frozen once the order is PAID.  No step adds a line to a
\* PAID order, removes one from it, or changes one of its lines.
C19_ItemsFrozen ==
    [][\A o \in Orders : status[o] = PAID => items'[o] = items[o]]_vars

\* C20: Stock Validator classification.  validate_items_stock returns one
\* result per item, in the order of the items; a result is ok exactly when
\* the quantity is at least 1, the item has a variant, the variant is active
\* and its stock is at least the quantity; otherwise its reason is the first
\* that applies of invalid quantity, missing variant, inactive variant,
\* insufficient stock; and each result reports the quantity asked for and
\* the stock available.
C20_Classification ==
    check_done =>
        /\ Len(check_results) = Len(check_items)
        /\ \A i \in 1..Len(check_items) :
              LET v == check_items[i].product_variant
                  q == check_items[i].quantity
                  r == check_results[i]
              IN
              /\ r.variant_id = v /\ r.requested = q
              /\ r.available = (IF v \in Variants THEN stock[v] ELSE 0)
              /\ r.ok <=> (q >= 1 /\ v \in Variants /\ is_active[v] /\ stock[v] >= q)
              /\ r.ok => r.reason = "ok"
              /\ q < 1 => r.reason = "Cantidad invalida."
              /\ (q >= 1 /\ v \notin Variants) => r.reason = "Variante no encontrada."
              /\ (q >= 1 /\ v \in Variants /\ ~is_active[v]) => r.reason = "Variante inactiva."
              /\ (q >= 1 /\ v \in Variants /\ is_active[v] /\ stock[v] < q)
                    => r.reason = "Stock insuficiente."

C20_Witness ==
    /\ check_done /\ Len(check_results) = 2
    /\ ~check_results[1].ok /\ check_results[1].reason = "Variante inactiva."
    /\ check_results[1].available < check_results[1].requested
    /\ check_results[2].ok /\ check_results[2].requested = check_results[2].available

\* The items of a list that the stock rule refuses: a quantity below 1, no
\* variant, an inactive variant, or less stock than the quantity.
Failing(its) ==
    {i \in 1..Len(its) :
        LET v == its[i].product_variant
            q == its[i].quantity
        IN ~(q >= 1 /\ v \in Variants /\ is_active[v] /\ stock[v] >= q)}

\* C21: enforcing mode.  assert_items_stock raises exactly when at least one
\* item is refused; the one error it raises has one entry per refused item,
\* in the order of the items, and the entry carries the variant id, the
\* reason, the quantity asked for and the stock available; when no item is
\* refused it returns silently.
C21_Aggregated ==
    assert_out.done =>
        LET F == Failing(check_items)
            msg == assert_out.message
        IN
        /\ assert_out.raised <=> F # {}
        /\ Len(msg) = Cardinality(F)
        /\ \A i \in F :
              LET e == msg[Cardinality({j \in F : j <= i})]
                  v == check_items[i].product_variant
                  q == check_items[i].quantity
              IN
              /\ e.vid = (IF v = NULL THEN "?" ELSE ToString(v))
              /\ e.requested = q
              /\ e.available = (IF v \in Variants THEN stock[v] ELSE 0)
              /\ e.reason # "ok"
              /\ e.reason = (IF q < 1 THEN "Cantidad invalida."
                             ELSE IF v \notin Variants THEN "Variante no encontrada."
                             ELSE IF ~is_active[v] THEN "Variante inactiva."
                             ELSE "Stock insuficiente.")

C21_Witness ==
    /\ assert_out.done /\ assert_out.raised
    /\ Len(check_items) = 2 /\ Len(assert_out.message) = 2
    /\ assert_out.message[1].reason = "Stock insuficiente."
    /\ assert_out.message[2].reason = "Variante inactiva."

\* C22: advisory mode never raises.  validate_cart_stock called with
\* strict_stock=False returns its warnings and hints without raising, for
\* every payload: also one with lines short of stock, with inactive
\* variants, or with variant ids that no record has.
C22_AdvisoryNeverRaises ==
    (cart_out.done /\ ~cart_strict) => ~cart_out.raised

\* C23: one sellability rule in both modes.  For a payload whose ids all
\* have a record, and for every line of it with a quantity of at least 1,
\* validate_cart_stock reports the line as failing (a warning for its
\* variant when advisory, the exception when strict) exactly when
\* validate_items_stock classifies the same line as not ok.
C23_SameRule ==
    (/\ cart_out.done /\ check_done
     /\ \A i \in DOMAIN cart_items : cart_items[i].product_variant_id \in Variants)
    => LET asked == {i \in DOMAIN cart_items : cart_items[i].quantity >= 1}
           refused == {i \in asked : ~check_results[i].ok}
       IN IF cart_strict
          THEN cart_out.raised <=> refused # {}
          ELSE \A v \in Variants :
                  v \in DOMAIN cart_out.warnings
                     <=> \E i \in refused : cart_items[i].product_variant_id = v

\* The lines of the payload that validate_cart_stock looks at, and among
\* them the last-unit lines (stock 1, quantity 1), the lines that ask for
\* more than the stock, and the lines whose id has no record.
CartKept == {i \in DOMAIN cart_items : cart_items[i].quantity > 0}
CartLastUnit ==
    {i \in CartKept : LET v == cart_items[i].product_variant_id
                      IN v \in Variants /\ stock[v] = 1 /\ cart_items[i].quantity = 1}
CartShort ==
    {i \in CartKept : LET v == cart_items[i].product_variant_id
                      IN v \in Variants /\ cart_items[i].quantity > stock[v]}
CartUnknown == {i \in CartKept : cart_items[i].product_variant_id \notin Variants}

\* C24: last-unit hint.  The result of validate_cart_stock has a last_unit
\* hint for a variant exactly when a line asks for 1 unit of it and its
\* stock is 1; such a line records no warning (a warning for a variant
\* comes from a line asking for more than the stock) and does not make the
\* call raise (it raises only for an id without a record, or, when strict,
\* for a line asking for more than the stock), in strict and in advisory
\* mode alike.
C24_LastUnitHint ==
    cart_out.done =>
        /\ ~cart_out.raised =>
              \A v \in Variants :
                 /\ v \in DOMAIN cart_out.hints
                       <=> \E i \in CartLastUnit : cart_items[i].product_variant_id = v
                 /\ v \in DOMAIN cart_out.hints => cart_out.hints[v] = "last_unit"
                 /\ v \in DOMAIN cart_out.warnings
                       => \E i \in CartShort : cart_items[i].product_variant_id = v
        /\ cart_out.raised => (CartUnknown # {} \/ (cart_strict /\ CartShort # {}))
        /\ (CartKept # {} /\ CartKept = CartLastUnit) =>
              (~cart_out.raised /\ cart_out.warnings = EmptyFn)

C24_Witness ==
    /\ cart_out.done /\ cart_strict /\ ~cart_out.raised
    /\ Len(cart_items) = 2
    /\ cart_items[1].product_variant_id # cart_items[2].product_variant_id
    /\ CartLastUnit = {1}
    /\ DOMAIN cart_out.hints = {cart_items[1].product_variant_id}
    /\ cart_out.warnings = EmptyFn

\* C25: shipping step function.  calculate_shipping_cost returns 0 when the
\* subtotal is at least FREE_SHIPPING_THRESHOLD, otherwise SHIPPING_BOGOTA
\* when the city code is the Bogota code, otherwise SHIPPING_NATIONAL,
\* whatever the orders, the stock and the clock are.
C25_ShippingStep ==
    ship_out.done =>
        /\ ship_args.subtotal >= FREE_SHIPPING_THRESHOLD => ship_out.value = 0
        /\ (ship_args.subtotal < FREE_SHIPPING_THRESHOLD /\ ship_args.city_code = BOGOTA_CODE)
              => ship_out.value = SHIPPING_BOGOTA
        /\ (ship_args.subtotal < FREE_SHIPPING_THRESHOLD /\ ship_args.city_code # BOGOTA_CODE)
              => ship_out.value = SHIPPING_NATIONAL

C25_Witness ==
    /\ ship_out.done /\ ship_out.value = 0
    /\ ship_args.subtotal = FREE_SHIPPING_THRESHOLD /\ ship_args.city_code = BOGOTA_CODE
    /\ \E v \in Variants : stock[v] > 0

\* The step in which the confirm_payment() call of p ends by raising.
CallRaises(p) == pc[p] # "idle" /\ pc'[p] = "idle" /\ Raised(result'[p])

\* The step of the admin action that handles a raised confirm_payment().
ReportsFailure(p) ==
    admin[p].stage = "loop" /\ pc[p] = "idle" /\ Raised(result[p]) /\ admin'[p] # admin[p]

\* C26: the admin confirm action does not alter an order on failure.  When
\* the confirmation of a selected order raises, nothing stored changes in
\* that step: the status and the timestamps of every order and the stock of
\* every variant stay as they were, so no confirmation made before in the
\* batch is rolled back; the action then only records the error for that
\* order and goes on with the rest of its selection.
C26_FailureLeavesOrder ==
    [][\A p \in Procs :
        /\ CallRaises(p) =>
              UNCHANGED <<status, stock_deducted_at, payment_confirmed_at, updated_at, stock,
                          subtotal, shipping_cost, total>>
        /\ ReportsFailure(p) =>
              /\ UNCHANGED <<status, stock_deducted_at, payment_confirmed_at, updated_at, stock,
                             subtotal, shipping_cost, total>>
              /\ admin'[p].failed = admin[p].failed \cup {Head(admin[p].queue)}
              /\ admin'[p].first = admin[p].first
              /\ admin'[p].queue = Tail(admin[p].queue)
              /\ admin'[p].stage = IF Tail(admin[p].queue) = << >> THEN "done" ELSE "loop"
      ]_vars

C26_Witness ==
    \E p \in Procs :
        /\ admin[p].stage = "done" /\ admin[p].selected = <<1, 2>>
        /\ admin[p].failed = {1} /\ admin[p].deducted = {2}
        /\ status[1] # PAID /\ stock_deducted_at[1] = NULL
        /\ status[2] = PAID /\ stock_deducted_at[2] # NULL

\* C28: a fresh confirmation is distinguishable from the no-op.  However
\* the runs of the admin confirm action on an order are interleaved,
\* is_first_confirmation is true for it in exactly the run whose
\* confirm_payment() call deducted the stock, hence in at most one run.
C28_FirstOnce ==
    \A o \in Orders :
        /\ {p \in Procs : o \in admin[p].first} = {p \in Procs : o \in admin[p].deducted}
        /\ Cardinality({p \in Procs : o \in admin[p].first}) <= 1

\* C29: Product.stock stays synchronised with its variants.  In every
\* reachable state, also after a confirmation has taken stock from a
\* variant, the stored Product.stock of every product is the sum of the
\* stock of its active variants.
C29_ProductStockSynced ==
    \A r \in Products : product_stock[r] = total_stock(r)

\* The units of a variant that the orders with a deduction marker hold.
DeductedQty(v) ==
    LET marked == {o \in created : stock_deducted_at[o] # NULL}
        RECURSIVE Sum(_)
        Sum(S) == IF S = {} THEN 0
                  ELSE LET o == CHOOSE x \in S : TRUE
                       IN LinesQty(items[o], v) + Sum(S \ {o})
    IN Sum(marked)

\* C27: stock conservation.  Under any interleaving of checkouts and
\* confirmations, for every variant the initial stock minus the current
\* stock is the sum of the variant's line quantities over exactly the orders
\* whose stock_deducted_at is set; and a checkout leaves every stock as it
\* is.
C27_Conservation ==
    /\ [](\A v \in Variants : initial_stock[v] - stock[v] = DeductedQty(v))
    /\ [][checkout' # checkout => stock' = stock]_vars

C27_Witness ==
    /\ checkout.done /\ checkout.order = 2
    /\ stock_deducted_at[1] # NULL /\ stock_deducted_at[2] # NULL
    /\ LinesQty(items[1], 1) > 0 /\ LinesQty(items[2], 1) > 0
    /\ stock[1] = initial_stock[1] - LinesQty(items[1], 1) - LinesQty(items[2], 1)

\* C30: duplicate lines are consolidated at checkout.  A checkout request
\* that names one variant on two lines, with quantities of at least 1 whose
\* sum the stock covers, does not fail and creates an order with a single
\* line for the variant, of the summed quantity; and no order holds two
\* lines for one variant.
C30_Consolidated ==
    /\ \A o \in created : \A v \in Variants :
          Cardinality({i \in DOMAIN items[o] : items[o][i].product_variant = v}) <= 1
    /\ (/\ checkout.done
        /\ Len(checkout.items) = 2
        /\ checkout.items[1].product_variant_id = checkout.items[2].product_variant_id
        /\ checkout.items[1].product_variant_id \in Variants
        /\ checkout.items[1].quantity >= 1 /\ checkout.items[2].quantity >= 1)
       => LET v == checkout.items[1].product_variant_id
              q == checkout.items[1].quantity + checkout.items[2].quantity
          IN q <= checkout.stock[v] =>
                /\ checkout.error = ""
                /\ checkout.order \in created
                /\ Len(items[checkout.order]) = 1
                /\ items[checkout.order][1].product_variant = v
                /\ items[checkout.order][1].quantity = q

====
